---- MODULE Spec2Model ----
(***************************************************************************)
(* Model of the storage-subnet API neuron (neurons/api.py), the protocol   *)
(* message variants (storage/protocol.py) and the validator configuration  *)
(* defaults (storage/validator/config.py).                                 *)
(*                                                                         *)
(* The user-facing handlers store_user_data / retrieve_user_data are       *)
(* coroutines; each is split into one action per await point, so that the  *)
(* event loop may interleave concurrent handler invocations exactly where  *)
(* the code suspends.                                                      *)
(***************************************************************************)
EXTENDS Integers, Sequences, FiniteSets, TLC

VARIABLES
    pc,         \* per handler task: position of the coroutine
    syn,        \* per handler task: the synapse object the handler mutates
    loc,        \* per handler task: the handler's local variables
    database,   \* self.database: the persistent key-value store (redis)
    placement,  \* PlacementRecord per ContentId, kept by store_broadband
    nonceCtr,   \* number of encrypt_data calls so far (fresh randomness)
    writer,     \* history: content id of the store call that wrote each key
    lastOk,     \* history: request of the latest successful store per ContentId
    pre,        \* history: per task, the persisted descriptor before the call
    variant,    \* signing: the message variant on the wire
    msg,        \* signing: the message's field values
    sent,       \* signing: the field values at the moment of signing
    stage,      \* signing: "built", "signed" or "verified"
    valid,      \* signing: outcome of the verification
    edits,      \* signing: number of assignments made after signing
    chal,       \* challenge: state of the round of each (ContentId, provider)
    elapsed,    \* challenge: seconds since the open challenge was issued
    round,      \* challenge: number of challenges issued so far per pair
    open,       \* challenge: seeds of the unresolved challenges per pair
    open_access,          \* access: self.config.api.open_access
    whitelisted_hotkeys,  \* access: self.config.api.whitelisted_hotkeys
    stake,                \* access: self.metagraph.S, the stake of each hotkey
    verdict,              \* access: latest decision of each blacklist function
    mode,              \* lifecycle: how run() is driven ("run_api" or "background")
    should_exit,       \* lifecycle: self.should_exit
    is_running,        \* lifecycle: self.is_running
    thread,            \* lifecycle: self.thread (0: None)
    started,           \* lifecycle: number of run() invocations so far
    position,          \* lifecycle: per run() invocation, where it stands
    how,               \* lifecycle: per run() invocation, how it left its loop
    current_block,     \* lifecycle: per invocation, current_block - prev_step_block
    chain_blocks,      \* lifecycle: chain height - self.prev_step_block
    registered,        \* lifecycle: wallet hotkey is in self.metagraph.hotkeys
    subtensor_closed,  \* lifecycle: self.subtensor.close() has been called
    caller,            \* lifecycle: position of the thread calling start / stop
    calls,             \* lifecycle: number of start / stop calls made so far
    lastCall,          \* history: name of the latest start / stop call
    stopped            \* history: stop_run_thread has returned, no start since

apiVars == <<pc, syn, loc, database, placement, nonceCtr, writer, lastOk, pre>>

signVars == <<variant, msg, sent, stage, valid, edits>>

chalVars == <<chal, elapsed, round, open>>

accessVars == <<open_access, whitelisted_hotkeys, stake, verdict>>

runVars == <<mode, should_exit, is_running, thread, started, position, how,
             current_block, chain_blocks, registered, subtensor_closed,
             caller, calls, lastCall, stopped>>

vars == <<apiVars, signVars, chalVars, accessVars, runVars>>

----------------------------------------------------------------------------
(* Bounds *)

\* number of encrypt_data calls explored (each draws fresh key material)
MaxEnc == 2

\* number of field assignments made on a message after it was signed
MaxEdits == 2

\* challenge rounds explored per (ContentId, provider) pair
MaxRounds == 2

\* seconds the clock advances in one step
TickSeconds == 5

\* run() invocations explored (the foreground one or background threads)
MaxThreads == 2

\* calls of run_in_background_thread / stop_run_thread / __enter__ / __exit__
MaxCalls == 4

\* the (ContentId, provider) pairs that are challenged
Pairs == { <<"cid1", "provider1">>, <<"cid1", "provider2">>, <<"cid2", "provider1">> }

\* concurrent handler invocations the axon runs on the event loop
Tasks == {1, 2}

\* request bodies the callers submit
Data == { <<77>>, <<0, 255>> }

----------------------------------------------------------------------------
(* Program constants *)

\* two providers more than the default redundancy
store_redundancy_wide == 3 + 2

\* --neuron.store_redundancy
store_redundancy == 3

\* --neuron.challenge_timeout (seconds)
challenge_timeout == 20

----------------------------------------------------------------------------
(* base64, as the standard alphabet: symbols 0..63, 64 is the pad '='      *)

Pad == 64

RECURSIVE B64Encode(_)
B64Encode(b) ==
    IF Len(b) = 0 THEN <<>>
    ELSE IF Len(b) = 1 THEN
        << b[1] \div 4, (b[1] % 4) * 16, Pad, Pad >>
    ELSE IF Len(b) = 2 THEN
        << b[1] \div 4, (b[1] % 4) * 16 + b[2] \div 16, (b[2] % 16) * 4, Pad >>
    ELSE
        << b[1] \div 4, (b[1] % 4) * 16 + b[2] \div 16,
           (b[2] % 16) * 4 + b[3] \div 64, b[3] % 64 >>
        \o B64Encode(SubSeq(b, 4, Len(b)))

\* what b64decode raises on incorrectly padded input (binascii.Error)
B64Error == << 256 >>

RECURSIVE B64Decode(_)
B64Decode(s) ==
    IF Len(s) = 0 THEN <<>>
    ELSE IF Len(s) < 4 THEN B64Error
    ELSE IF s[1] = Pad \/ s[2] = Pad THEN B64Error
    ELSE IF s[3] = Pad THEN
        \* one byte; the low 4 bits of the second symbol are discarded
        IF s[4] = Pad /\ Len(s) = 4 THEN << s[1] * 4 + s[2] \div 16 >>
        ELSE B64Error
    ELSE IF s[4] = Pad THEN
        \* two bytes; the low 2 bits of the third symbol are discarded
        IF Len(s) = 4
        THEN << s[1] * 4 + s[2] \div 16, (s[2] % 16) * 16 + s[3] \div 4 >>
        ELSE B64Error
    ELSE
        LET rest == B64Decode(SubSeq(s, 5, Len(s)))
        IN  IF rest = B64Error THEN B64Error
            ELSE << s[1] * 4 + s[2] \div 16, (s[2] % 16) * 16 + s[3] \div 4,
                    (s[3] % 4) * 64 + s[4] >> \o rest

\* the StoreUser.encrypted_data strings callers send: the canonical encoding
\* of each body, one non-canonical encoding (spare bits set) and one string
\* with incorrect padding
StoreInputs ==
    { B64Encode(d) : d \in Data } \cup { <<19, 17, Pad, Pad>>, <<19, 16, Pad>> }

----------------------------------------------------------------------------
(* Values *)

NoHash == [alg |-> "none", of |-> <<>>]

\* generate_cid_string: a collision-free digest of the exact byte sequence
CID(b) == [alg |-> "cid", of |-> b]

Cids == { CID(d) : d \in Data }

NoDesc == [owner |-> "none", nonce |-> 0]

PyNone == << "none", NoDesc >>

\* a dict and its json serialisation
Dict(d) == << "dict", d >>

IsDict(v) == v[1] = "dict"

JsonDumps(v) == << "json", v[2] >>

JsonLoads(s) == IF s[2] = NoDesc THEN PyNone ELSE << "dict", s[2] >>

\* StoreUser.encryption_payload strings the callers send
UserPayloads ==
    { JsonDumps(Dict([owner |-> "user", nonce |-> n])) : n \in 1 .. 2 }

NoCt == [pt |-> <<>>, nonce |-> 0]

\* encrypt_data(data, wallet) with the n-th fresh key material
encrypt_data(data, n) ==
    [ct |-> [pt |-> data, nonce |-> n],
     payload |-> Dict([owner |-> "validator", nonce |-> n])]

\* decrypt_data_with_private_key(ciphertext, payload bytes, private key)
decrypt_data_with_private_key(ct, payloadBytes) ==
    IF /\ ct # NoCt
       /\ payloadBytes[1] = "json"
       /\ payloadBytes[2].owner = "validator"
       /\ payloadBytes[2].nonce = ct.nonce
    THEN [ok |-> TRUE, pt |-> ct.pt]
    ELSE [ok |-> FALSE, pt |-> <<>>]

----------------------------------------------------------------------------
(* The persistent key-value store *)

DbKeys == { <<"payload", sc, c>> : sc \in {"validator", "user"}, c \in Cids }

Absent == PyNone

\* retrieve_encryption_payload(key, database)
retrieve_encryption_payload(k, db) ==
    LET key == <<"payload">> \o k
    IN  IF key \in DOMAIN db /\ db[key] # Absent THEN JsonLoads(db[key]) ELSE PyNone

----------------------------------------------------------------------------
(* Placement coordinator *)

\* providers are interchangeable: a placement is the ciphertext and the
\* number of providers holding a copy of it
NoPlacement == [ct |-> NoCt, copies |-> 0]

\* quorum policy "majority" of the redundancy factor
QuorumMet(acks) == 2 * acks > store_redundancy

\* store_broadband(self, encrypted_data, encryption_payload, data_hash):
\* acks of the store_redundancy providers acknowledged the ciphertext within
\* their timeout; the placement record and the user-facing payload are
\* recorded once the quorum is met, otherwise the call fails (QuorumNotMet)
store_broadband(acks, ct, payload, h) ==
    [ok |-> QuorumMet(acks),
     placement |-> IF QuorumMet(acks)
                   THEN [placement EXCEPT ![h] = [ct |-> ct, copies |-> acks]]
                   ELSE placement,
     database |-> IF QuorumMet(acks)
                  THEN [database EXCEPT ![<<"payload", "user", h>>] = payload]
                  ELSE database]

\* retrieve_broadband(self, data_hash): answered tells whether one of the
\* providers of the placement record returned, within its timeout, data
\* matching the record; DataUnavailable otherwise
retrieve_broadband(answered, h) ==
    LET known == h \in Cids /\ placement[h].copies > 0
    IN  IF known /\ answered
        THEN [ok |-> TRUE, ct |-> placement[h].ct,
              payload |-> database[<<"payload", "user", h>>]]
        ELSE [ok |-> FALSE, ct |-> NoCt, payload |-> PyNone]

----------------------------------------------------------------------------
(* Handler state *)

NoSyn == [kind |-> "none", encrypted_data |-> <<>>, encryption_payload |-> PyNone,
          data_hash |-> NoHash]

NoLoc == [decoded_data |-> <<>>, validator_encrypted_data |-> NoCt,
          validator_encryption_payload |-> PyNone, content_id |-> NoHash,
          user_encryption_payload |-> PyNone, quorum_met |-> FALSE,
          acks |-> 0]

\* every handler invocation resolves to success or one concrete error kind
ErrorKinds == {"binascii.Error", "QuorumNotMet", "DataUnavailable", "DecryptionError"}

Free(t) == pc[t] \in {"idle", "ok"} \cup ErrorKinds

InitApi ==
    /\ pc = [t \in Tasks |-> "idle"]
    /\ syn = [t \in Tasks |-> NoSyn]
    /\ loc = [t \in Tasks |-> NoLoc]
    /\ database = [k \in DbKeys |-> Absent]
    /\ placement = [c \in Cids |-> NoPlacement]
    /\ nonceCtr = 0
    /\ writer = [k \in DbKeys |-> NoHash]
    /\ lastOk = [c \in Cids |-> [d |-> <<>>, p |-> PyNone]]
    /\ pre = [t \in Tasks |-> Absent]

\* the id taken from the network-side ciphertext instead of the user's bytes
ContentIdOfCiphertext(decoded_data, validator_encrypted_data) ==
    CID(validator_encrypted_data.pt \o <<validator_encrypted_data.nonce>>)

\* content_id = generate_cid_string(decoded_data)
ContentIdOf(decoded_data, validator_encrypted_data) == CID(decoded_data)

\* one slot for every item: the key does not depend on the content id
StoreKeyShared(content_id) == <<"payload", "validator", CID(<<77>>)>>

\* f"payload:validator:{content_id}"
StoreKey(content_id) == <<"payload", "validator", content_id>>

\* "validator:" + synapse.data_hash
RetrieveKey(data_hash) == <<"validator", data_hash>>

\* store_user_data up to its first await: decode, encrypt, derive the id
StoreBegin(t, ed, p) ==
    /\ Free(t)
    /\ nonceCtr < MaxEnc
    /\ LET decoded == B64Decode(ed)
           request == [kind |-> "StoreUser", encrypted_data |-> ed,
                       encryption_payload |-> p, data_hash |-> NoHash]
       IN  IF decoded = B64Error
           THEN /\ pc' = [pc EXCEPT ![t] = "binascii.Error"]
                /\ syn' = [syn EXCEPT ![t] = request]
                /\ loc' = [loc EXCEPT ![t] = NoLoc]
                /\ pre' = [pre EXCEPT ![t] = Absent]
                /\ UNCHANGED nonceCtr
           ELSE LET e   == encrypt_data(decoded, nonceCtr + 1)
                    cid == ContentIdOf(decoded, e.ct)
                    vp  == IF IsDict(e.payload) THEN JsonDumps(e.payload)
                           ELSE e.payload
                IN  /\ pc' = [pc EXCEPT ![t] = "st_set"]
                    /\ syn' = [syn EXCEPT ![t] = request]
                    /\ loc' = [loc EXCEPT ![t] =
                                 [NoLoc EXCEPT !.decoded_data = decoded,
                                               !.validator_encrypted_data = e.ct,
                                               !.validator_encryption_payload = vp,
                                               !.content_id = cid]]
                    /\ pre' = [pre EXCEPT ![t] = database[StoreKey(CID(decoded))]]
                    /\ nonceCtr' = nonceCtr + 1
    /\ UNCHANGED <<database, placement, writer, lastOk>>
    /\ UNCHANGED <<signVars, chalVars, accessVars, runVars>>

\* await self.database.set(f"payload:validator:{content_id}", payload)
StoreDbSet(t) ==
    /\ pc[t] = "st_set"
    /\ LET k == StoreKey(loc[t].content_id)
       IN  /\ database' = [database EXCEPT ![k] = loc[t].validator_encryption_payload]
           /\ writer' = [writer EXCEPT ![k] = loc[t].content_id]
    /\ pc' = [pc EXCEPT ![t] = "st_fanout"]
    /\ UNCHANGED <<syn, loc, placement, nonceCtr, lastOk, pre>>
    /\ UNCHANGED <<signVars, chalVars, accessVars, runVars>>

\* the failure of store_broadband is swallowed and the id reported anyway
StoreOutcomeIgnoringFailure(ok, synapse, content_id) ==
    [pc |-> "ok", syn |-> [synapse EXCEPT !.data_hash = content_id]]

\* what the handler does with the outcome of store_broadband: an exception
\* propagates, otherwise synapse.data_hash = content_id and return
StoreOutcome(ok, synapse, content_id) ==
    IF ok
    THEN [pc |-> "ok", syn |-> [synapse EXCEPT !.data_hash = content_id]]
    ELSE [pc |-> "QuorumNotMet", syn |-> synapse]

\* _ = await store_broadband(...); synapse.data_hash = content_id; return
StoreFanOut(t, acks) ==
    /\ pc[t] = "st_fanout"
    /\ LET h == loc[t].content_id
           r == store_broadband(acks, loc[t].validator_encrypted_data,
                                syn[t].encryption_payload, h)
           o == StoreOutcome(r.ok, syn[t], h)
       IN  /\ placement' = r.placement
           /\ database' = r.database
           /\ pc' = [pc EXCEPT ![t] = o.pc]
           /\ syn' = [syn EXCEPT ![t] = o.syn]
           /\ lastOk' = IF r.ok
                        THEN [lastOk EXCEPT ![h] = [d |-> loc[t].decoded_data,
                                                   p |-> syn[t].encryption_payload]]
                        ELSE lastOk
    /\ loc' = [loc EXCEPT ![t] =
                 [NoLoc EXCEPT !.content_id = loc[t].content_id,
                               !.quorum_met = QuorumMet(acks),
                               !.acks = acks]]
    /\ UNCHANGED <<nonceCtr, writer, pre>>
    /\ UNCHANGED <<signVars, chalVars, accessVars, runVars>>

\* retrieve_user_data up to the end of its first await (retrieve_broadband)
RetrieveBegin(t, h, answered) ==
    /\ Free(t)
    /\ LET request == [kind |-> "RetrieveUser", encrypted_data |-> <<>>,
                       encryption_payload |-> PyNone, data_hash |-> h]
           r == retrieve_broadband(answered, h)
       IN  /\ syn' = [syn EXCEPT ![t] = request]
           /\ IF r.ok
              THEN /\ pc' = [pc EXCEPT ![t] = "rt_load"]
                   /\ loc' = [loc EXCEPT ![t] =
                                [NoLoc EXCEPT !.validator_encrypted_data = r.ct,
                                              !.user_encryption_payload = r.payload]]
              ELSE /\ pc' = [pc EXCEPT ![t] = "DataUnavailable"]
                   /\ loc' = [loc EXCEPT ![t] = NoLoc]
    /\ pre' = [pre EXCEPT ![t] = Absent]
    /\ UNCHANGED <<database, placement, nonceCtr, writer, lastOk>>
    /\ UNCHANGED <<signVars, chalVars, accessVars, runVars>>

\* the user payload is assigned before the ciphertext is unwrapped
RetrieveOutcomeEarlyAssign(dec, synapse, user_encryption_payload) ==
    [pc |-> IF dec.ok THEN "ok" ELSE "DecryptionError",
     syn |-> [synapse EXCEPT
                !.encrypted_data = IF dec.ok THEN B64Encode(dec.pt) ELSE <<>>,
                !.encryption_payload = user_encryption_payload]]

\* what the handler does with the outcome of the decryption: an exception
\* propagates, otherwise both response fields are assigned
RetrieveOutcome(dec, synapse, user_encryption_payload) ==
    IF dec.ok
    THEN [pc |-> "ok",
          syn |-> [synapse EXCEPT
                     !.encrypted_data = B64Encode(dec.pt),
                     !.encryption_payload =
                         IF IsDict(user_encryption_payload)
                         THEN JsonDumps(user_encryption_payload)
                         ELSE user_encryption_payload]]
    ELSE [pc |-> "DecryptionError", syn |-> synapse]

\* the rest of retrieve_user_data: load the descriptor, decrypt, respond
RetrieveFinish(t) ==
    /\ pc[t] = "rt_load"
    /\ LET vp  == retrieve_encryption_payload(RetrieveKey(syn[t].data_hash), database)
           dec == decrypt_data_with_private_key(loc[t].validator_encrypted_data,
                                                JsonDumps(vp))
           o   == RetrieveOutcome(dec, syn[t], loc[t].user_encryption_payload)
       IN  /\ pc' = [pc EXCEPT ![t] = o.pc]
           /\ syn' = [syn EXCEPT ![t] = o.syn]
           /\ loc' = [loc EXCEPT ![t] =
                        [NoLoc EXCEPT !.validator_encrypted_data =
                                          loc[t].validator_encrypted_data,
                                      !.validator_encryption_payload = vp,
                                      !.content_id =
                                          writer[<<"payload">> \o RetrieveKey(syn[t].data_hash)]]]
    /\ UNCHANGED <<database, placement, nonceCtr, writer, lastOk, pre>>
    /\ UNCHANGED <<signVars, chalVars, accessVars, runVars>>

TaskStep(t) ==
    \/ \E ed \in StoreInputs, p \in UserPayloads : StoreBegin(t, ed, p)
    \/ StoreDbSet(t)
    \/ \E acks \in 0 .. store_redundancy : StoreFanOut(t, acks)
    \/ \E h \in Cids, answered \in BOOLEAN : RetrieveBegin(t, h, answered)
    \/ RetrieveFinish(t)

----------------------------------------------------------------------------
(* Protocol messages and the content that is signed *)

Variants == {"Store", "StreamStore", "StoreUser", "Challenge", "Retrieve", "RetrieveUser"}

StoreFields ==
    << "encrypted_data", "curve", "g", "h", "seed",
       "randomness", "commitment", "signature", "commitment_hash" >>

StoreUserFields == << "encrypted_data", "encryption_payload", "data_hash" >>

ChallengeFields ==
    << "challenge_hash", "challenge_index", "chunk_size", "g", "h", "curve", "seed",
       "commitment_hash", "commitment_proof", "commitment", "data_chunk",
       "randomness", "merkle_proof", "merkle_root" >>

RetrieveFields ==
    << "data_hash", "seed", "data", "commitment_hash", "commitment_proof" >>

RetrieveUserFields == << "data_hash", "encrypted_data", "encryption_payload" >>

\* the fields declared on each variant, in declaration order
Fields(v) ==
    CASE v = "Store" -> StoreFields
      [] v = "StreamStore" -> StoreFields
      [] v = "StoreUser" -> StoreUserFields
      [] v = "Challenge" -> ChallengeFields
      [] v = "Retrieve" -> RetrieveFields
      [] v = "RetrieveUser" -> RetrieveUserFields

\* the fields declared Optional with default None
OptionalFields(v) ==
    CASE v = "Store" -> {"randomness", "commitment", "signature", "commitment_hash"}
      [] v = "StreamStore" -> {"randomness", "commitment", "signature", "commitment_hash"}
      [] v = "StoreUser" -> {"data_hash"}
      [] v = "Challenge" -> {"commitment_hash", "commitment_proof", "commitment",
                             "data_chunk", "randomness", "merkle_proof", "merkle_root"}
      [] v = "Retrieve" -> {"data", "commitment_hash", "commitment_proof"}
      [] v = "RetrieveUser" -> {"encrypted_data", "encryption_payload"}

StoreRequired ==
    << "curve", "g", "h", "seed", "randomness", "commitment", "signature",
       "commitment_hash" >>

\* a list that leaves the user's payload out of the signed content
StoreUserRequiredShort == << "encrypted_data" >>

StoreUserRequired == << "encrypted_data", "encryption_payload" >>

ChallengeRequired ==
    << "commitment_hash", "commitment_proof", "commitment", "data_chunk",
       "randomness", "merkle_proof", "merkle_root" >>

RetrieveRequired ==
    << "data", "data_hash", "seed", "commtiment_proof", "commitment_hash" >>

RetrieveUserRequired == << "data_hash" >>

\* required_hash_fields of each variant
required_hash_fields(v) ==
    CASE v = "Store" -> StoreRequired
      [] v = "StreamStore" -> StoreRequired
      [] v = "StoreUser" -> StoreUserRequired
      [] v = "Challenge" -> ChallengeRequired
      [] v = "Retrieve" -> RetrieveRequired
      [] v = "RetrieveUser" -> RetrieveUserRequired

Range(seq) == { seq[i] : i \in 1 .. Len(seq) }

FieldVals == {"None", "a", "b"}

\* the content that is signed: the values of the required-hash fields in
\* the order of the list; a name that is no field of the message has no value
BodyHash(v, m) ==
    [i \in 1 .. Len(required_hash_fields(v)) |->
        LET f == required_hash_fields(v)[i]
        IN  IF f \in DOMAIN m THEN <<f, m[f]>> ELSE <<f, "missing">>]

\* a message as its sender builds it: the request fields set, the Optional
\* ones None
NewMessage(v) ==
    [f \in Range(Fields(v)) |-> IF f \in OptionalFields(v) THEN "None" ELSE "a"]

NoMessage == [none |-> "None"]

SignIdle ==
    /\ variant = "none"
    /\ msg = NoMessage
    /\ sent = NoMessage
    /\ stage = "none"
    /\ valid = FALSE
    /\ edits = 0

InitSign ==
    /\ variant \in Variants
    /\ msg = NewMessage(variant)
    /\ sent = NoMessage
    /\ stage = "built"
    /\ valid = FALSE
    /\ edits = 0

\* the sender signs the message
Sign ==
    /\ stage = "built"
    /\ stage' = "signed"
    /\ sent' = msg
    /\ UNCHANGED <<variant, msg, valid, edits>>
    /\ UNCHANGED <<apiVars, chalVars, accessVars, runVars>>

\* a field is assigned on the signed message, as the handlers do when they
\* fill in a response (synapse.data_hash = content_id)
SetField(f, val) ==
    /\ stage = "signed"
    /\ edits < MaxEdits
    /\ f \in DOMAIN msg
    /\ msg[f] # val
    /\ msg' = [msg EXCEPT ![f] = val]
    /\ edits' = edits + 1
    /\ UNCHANGED <<variant, sent, stage, valid>>
    /\ UNCHANGED <<apiVars, chalVars, accessVars, runVars>>

\* the receiver recomputes the signed content and compares
Verify ==
    /\ stage = "signed"
    /\ stage' = "verified"
    /\ valid' = (BodyHash(variant, msg) = BodyHash(variant, sent))
    /\ UNCHANGED <<variant, msg, sent, edits>>
    /\ UNCHANGED <<apiVars, chalVars, accessVars, runVars>>

NextSign ==
    \/ Sign
    \/ \E f \in Range(ChallengeFields) \cup Range(StoreFields)
                \cup Range(StoreUserFields) \cup Range(RetrieveFields),
          val \in FieldVals : SetField(f, val)
    \/ Verify

----------------------------------------------------------------------------
(* Challenge protocol state machine, driven by the verifier *)

InitChal ==
    /\ chal = [p \in Pairs |-> "Idle"]
    /\ elapsed = [p \in Pairs |-> 0]
    /\ round = [p \in Pairs |-> 0]
    /\ open = [p \in Pairs |-> {}]

\* the initial commitment is recorded at store time
Commit(p) ==
    /\ chal[p] = "Idle"
    /\ round[p] = 0
    /\ open[p] = {}
    /\ chal' = [chal EXCEPT ![p] = "Committed"]
    /\ UNCHANGED <<elapsed, round, open>>
    /\ UNCHANGED <<apiVars, signVars, accessVars, runVars>>

\* a pair is challenged whatever the state of its previous round
MayIssueAnyTime(p) == chal[p] # "Idle" \/ round[p] > 0

\* a pair may be challenged once its previous round is over
MayIssue(p) ==
    \/ chal[p] = "Committed"
    \/ chal[p] = "Idle" /\ round[p] > 0

\* the verifier issues a Challenge with a fresh seed and starts the timeout
Issue(p) ==
    /\ MayIssue(p)
    /\ round[p] < MaxRounds
    /\ round' = [round EXCEPT ![p] = round[p] + 1]
    /\ open' = [open EXCEPT ![p] = open[p] \cup {round[p] + 1}]
    /\ chal' = [chal EXCEPT ![p] = "Challenged"]
    /\ elapsed' = [elapsed EXCEPT ![p] = 0]
    /\ UNCHANGED <<apiVars, signVars, accessVars, runVars>>

\* the provider answers within the timeout; the verifier checks commitment
\* and Merkle proof
Respond(p, proofOk) ==
    /\ chal[p] = "Challenged"
    /\ elapsed[p] < challenge_timeout
    /\ chal' = [chal EXCEPT ![p] = IF proofOk THEN "Verified" ELSE "Failed"]
    /\ open' = [open EXCEPT ![p] = {}]
    /\ UNCHANGED <<elapsed, round>>
    /\ UNCHANGED <<apiVars, signVars, accessVars, runVars>>

\* the expiry is ignored and the round stays open
ExpiredStaysOpen(state) == state

\* the state of a pair whose challenge expired unanswered
Expired(state) == "Failed"

\* the timeout expires: the provider's task is abandoned
Timeout(p) ==
    /\ chal[p] = "Challenged"
    /\ elapsed[p] >= challenge_timeout
    /\ chal' = [chal EXCEPT ![p] = Expired(chal[p])]
    /\ open' = [open EXCEPT ![p] = IF Expired(chal[p]) = "Challenged"
                                   THEN open[p] ELSE {}]
    /\ UNCHANGED <<elapsed, round>>
    /\ UNCHANGED <<apiVars, signVars, accessVars, runVars>>

\* the round is over; the pair waits for its next round
Close(p) ==
    /\ chal[p] \in {"Verified", "Failed"}
    /\ chal' = [chal EXCEPT ![p] = "Idle"]
    /\ elapsed' = [elapsed EXCEPT ![p] = 0]
    /\ UNCHANGED <<round, open>>
    /\ UNCHANGED <<apiVars, signVars, accessVars, runVars>>

\* time passes for every open challenge, never beyond an expiry
Tick ==
    /\ \E p \in Pairs : chal[p] = "Challenged"
    /\ \A p \in Pairs : chal[p] = "Challenged" => elapsed[p] < challenge_timeout
    /\ elapsed' = [p \in Pairs |->
                     IF chal[p] = "Challenged" THEN elapsed[p] + TickSeconds
                     ELSE elapsed[p]]
    /\ UNCHANGED <<chal, round, open>>
    /\ UNCHANGED <<apiVars, signVars, accessVars, runVars>>

NextChal ==
    \/ \E p \in Pairs : Commit(p)
    \/ \E p \in Pairs : Issue(p)
    \/ \E p \in Pairs, proofOk \in BOOLEAN : Respond(p, proofOk)
    \/ \E p \in Pairs : Timeout(p)
    \/ \E p \in Pairs : Close(p)
    \/ Tick

----------------------------------------------------------------------------
(* Access control of the two user-facing endpoints *)

Hotkeys == { "hotkey1", "hotkey2", "hotkey3" }

Stakes == { 0, 1000 }

NoVerdict == [hotkey |-> "none", stake |-> 0, rejected |-> FALSE, reason |-> "none"]

AccessIdle ==
    /\ open_access = FALSE
    /\ whitelisted_hotkeys = {}
    /\ stake = [h \in Hotkeys |-> 0]
    /\ verdict = [e \in {"store", "retrieve"} |-> NoVerdict]

InitAccess ==
    /\ open_access \in BOOLEAN
    /\ whitelisted_hotkeys \in SUBSET Hotkeys
    /\ stake \in [Hotkeys -> Stakes]
    /\ verdict = [e \in {"store", "retrieve"} |-> NoVerdict]

\* the pair (blacklisted, reason) that store_blacklist returns
store_blacklist(hotkey) ==
    IF open_access
    THEN <<FALSE, "open access">>
    ELSE IF hotkey \in whitelisted_hotkeys
         THEN <<FALSE, "whitelisted">>
         ELSE <<TRUE, "not whitelisted or in top n% stake">>

retrieve_blacklist_by_stake(hotkey) ==
    IF open_access
    THEN <<FALSE, "open access">>
    ELSE IF hotkey \in whitelisted_hotkeys \/ stake[hotkey] > 0
         THEN <<FALSE, "whitelisted">>
         ELSE <<TRUE, "not whitelisted or in top n% stake">>

retrieve_blacklist(hotkey) ==
    IF open_access
    THEN <<FALSE, "open access">>
    ELSE IF hotkey \in whitelisted_hotkeys
         THEN <<FALSE, "whitelisted">>
         ELSE <<TRUE, "not whitelisted or in top n% stake">>

Decision(hotkey, result) ==
    [hotkey |-> hotkey, stake |-> stake[hotkey],
     rejected |-> result[1], reason |-> result[2]]

\* a store request from the caller reaches the axon's blacklist check
StoreBlacklist(hotkey) ==
    /\ verdict' = [verdict EXCEPT !["store"] = Decision(hotkey, store_blacklist(hotkey))]
    /\ UNCHANGED <<open_access, whitelisted_hotkeys, stake>>
    /\ UNCHANGED <<apiVars, signVars, chalVars, runVars>>

\* a retrieve request from the caller reaches the axon's blacklist check
RetrieveBlacklist(hotkey) ==
    /\ verdict' = [verdict EXCEPT !["retrieve"] = Decision(hotkey, retrieve_blacklist(hotkey))]
    /\ UNCHANGED <<open_access, whitelisted_hotkeys, stake>>
    /\ UNCHANGED <<apiVars, signVars, chalVars, runVars>>

\* the stake of a hotkey changes on chain
StakeChanges(hotkey, s) ==
    /\ stake[hotkey] # s
    /\ stake' = [stake EXCEPT ![hotkey] = s]
    /\ UNCHANGED <<open_access, whitelisted_hotkeys, verdict>>
    /\ UNCHANGED <<apiVars, signVars, chalVars, runVars>>

NextAccess ==
    \/ \E h \in Hotkeys : StoreBlacklist(h)
    \/ \E h \in Hotkeys : RetrieveBlacklist(h)
    \/ \E h \in Hotkeys, s \in Stakes : StakeChanges(h, s)

----------------------------------------------------------------------------
(* The polling loop run() and the background thread that executes it *)

\* blocks that must pass since prev_step_block before the next refresh
blocks_per_step == 3

Runs == 1 .. MaxThreads

LifecycleStart(m) ==
    /\ mode = m
    /\ should_exit = FALSE
    /\ is_running = FALSE
    /\ thread = 0
    /\ started = IF m = "run_api" THEN 1 ELSE 0
    /\ position = [r \in Runs |-> IF m = "run_api" /\ r = 1 THEN "check" ELSE "unstarted"]
    /\ how = [r \in Runs |-> "none"]
    /\ current_block = [r \in Runs |-> 0]
    /\ chain_blocks = 0
    /\ registered = TRUE
    /\ subtensor_closed = FALSE
    /\ caller = "idle"
    /\ calls = 0
    /\ lastCall = "none"
    /\ stopped = FALSE

RunIdle == LifecycleStart("idle")

\* the neuron is constructed and then driven either by run_api(), which
\* calls run() on the main thread, or through the background-thread methods
InitRun == \E m \in {"run_api", "background"} : LifecycleStart(m)

\* the run() invocations that have not returned yet
Alive == { r \in Runs : position[r] \notin {"unstarted", "returned"} }

\* positions at which run() waits for the network or sleeps
Blocking == {"query", "wait", "refresh", "finally"}

\* the registration check at the top of run(), outside the try statement
RunCheck(r) ==
    /\ position[r] = "check"
    /\ IF registered
       THEN /\ position' = [position EXCEPT ![r] = "loop"]
            /\ UNCHANGED how
       ELSE /\ position' = [position EXCEPT ![r] = "returned"]
            /\ how' = [how EXCEPT ![r] = "NotRegistered"]
    /\ UNCHANGED <<mode, should_exit, is_running, thread, started, current_block,
                   chain_blocks, registered, subtensor_closed, caller, calls,
                   lastCall, stopped>>
    /\ UNCHANGED <<apiVars, signVars, chalVars, accessVars>>

\* while not self.should_exit
RunLoopTest(r) ==
    /\ position[r] = "loop"
    /\ IF should_exit
       THEN /\ position' = [position EXCEPT ![r] = "finally"]
            /\ how' = [how EXCEPT ![r] = "normal"]
       ELSE /\ position' = [position EXCEPT ![r] = "query"]
            /\ UNCHANGED how
    /\ UNCHANGED <<mode, should_exit, is_running, thread, started, current_block,
                   chain_blocks, registered, subtensor_closed, caller, calls,
                   lastCall, stopped>>
    /\ UNCHANGED <<apiVars, signVars, chalVars, accessVars>>

\* current_block = self.subtensor.get_current_block()
RunQuery(r) ==
    /\ position[r] = "query"
    /\ current_block' = [current_block EXCEPT ![r] = chain_blocks]
    /\ position' = [position EXCEPT ![r] = "wait"]
    /\ UNCHANGED <<mode, should_exit, is_running, thread, started, how,
                   chain_blocks, registered, subtensor_closed, caller, calls,
                   lastCall, stopped>>
    /\ UNCHANGED <<apiVars, signVars, chalVars, accessVars>>

\* one turn of the inner loop: test the distance to prev_step_block, and if
\* it is short sleep a second, query the block again and test should_exit
RunWait(r) ==
    /\ position[r] = "wait"
    /\ IF current_block[r] < blocks_per_step
       THEN /\ current_block' = [current_block EXCEPT ![r] = chain_blocks]
            /\ position' = [position EXCEPT ![r] =
                               IF should_exit THEN "refresh" ELSE "wait"]
       ELSE /\ position' = [position EXCEPT ![r] = "refresh"]
            /\ UNCHANGED current_block
    /\ UNCHANGED <<mode, should_exit, is_running, thread, started, how,
                   chain_blocks, registered, subtensor_closed, caller, calls,
                   lastCall, stopped>>
    /\ UNCHANGED <<apiVars, signVars, chalVars, accessVars>>

\* prev_step_block is set to the chain's height and the metagraph is
\* replaced by the network's latest state, which may or may not list the
\* wallet's hotkey
RunRefresh(r, listed) ==
    /\ position[r] = "refresh"
    /\ chain_blocks' = 0
    /\ current_block' = [q \in Runs |-> 0]
    /\ registered' = listed
    /\ position' = [position EXCEPT ![r] = "loop"]
    /\ UNCHANGED <<mode, should_exit, is_running, thread, started, how,
                   subtensor_closed, caller, calls, lastCall, stopped>>
    /\ UNCHANGED <<apiVars, signVars, chalVars, accessVars>>

\* a call inside the loop raises an Exception: the handler logs the
\* traceback and control passes to the finally clause
RunRaise(r) ==
    /\ position[r] \in {"query", "wait", "refresh"}
    /\ how' = [how EXCEPT ![r] = "Exception"]
    /\ position' = [position EXCEPT ![r] = "finally"]
    /\ UNCHANGED <<mode, should_exit, is_running, thread, started, current_block,
                   chain_blocks, registered, subtensor_closed, caller, calls,
                   lastCall, stopped>>
    /\ UNCHANGED <<apiVars, signVars, chalVars, accessVars>>

\* KeyboardInterrupt reaches run() on the main thread: the handler stops the
\* axon and calls exit(), and the finally clause runs on the way out
RunInterrupt(r) ==
    /\ mode = "run_api"
    /\ position[r] \in {"loop", "query", "wait", "refresh"}
    /\ how' = [how EXCEPT ![r] = "KeyboardInterrupt"]
    /\ position' = [position EXCEPT ![r] = "finally"]
    /\ UNCHANGED <<mode, should_exit, is_running, thread, started, current_block,
                   chain_blocks, registered, subtensor_closed, caller, calls,
                   lastCall, stopped>>
    /\ UNCHANGED <<apiVars, signVars, chalVars, accessVars>>

\* finally: self.subtensor.close()
RunFinally(r) ==
    /\ position[r] = "finally"
    /\ subtensor_closed' = TRUE
    /\ position' = [position EXCEPT ![r] = "returned"]
    /\ UNCHANGED <<mode, should_exit, is_running, thread, started, how,
                   current_block, chain_blocks, registered, caller, calls,
                   lastCall, stopped>>
    /\ UNCHANGED <<apiVars, signVars, chalVars, accessVars>>

\* the steps run() takes whenever its calls return
RunStep(r) ==
    \/ RunCheck(r)
    \/ RunLoopTest(r)
    \/ RunQuery(r)
    \/ RunWait(r)
    \/ \E listed \in BOOLEAN : RunRefresh(r, listed)
    \/ RunFinally(r)

\* the chain produces a block
NewBlock ==
    /\ mode # "idle"
    /\ chain_blocks < blocks_per_step
    /\ chain_blocks' = chain_blocks + 1
    /\ UNCHANGED <<mode, should_exit, is_running, thread, started, position, how,
                   current_block, registered, subtensor_closed, caller, calls,
                   lastCall, stopped>>
    /\ UNCHANGED <<apiVars, signVars, chalVars, accessVars>>

run_in_background_thread(name) ==
    /\ mode = "background"
    /\ caller = "idle"
    /\ calls < MaxCalls
    /\ is_running \/ started < MaxThreads
    /\ calls' = calls + 1
    /\ lastCall' = name
    /\ IF ~is_running
       THEN /\ should_exit' = FALSE
            /\ thread' = started + 1
            /\ started' = started + 1
            /\ position' = [position EXCEPT ![started + 1] = "check"]
            /\ is_running' = TRUE
            /\ stopped' = FALSE
       ELSE UNCHANGED <<should_exit, thread, started, position, is_running, stopped>>
    /\ UNCHANGED <<mode, how, current_block, chain_blocks, registered,
                   subtensor_closed, caller>>
    /\ UNCHANGED <<apiVars, signVars, chalVars, accessVars>>

\* stop_run_thread up to the point where it waits in self.thread.join(5)
stop_run_thread(name) ==
    /\ mode = "background"
    /\ caller = "idle"
    /\ calls < MaxCalls
    /\ calls' = calls + 1
    /\ lastCall' = name
    /\ IF is_running
       THEN /\ should_exit' = TRUE
            /\ caller' = "joining"
            /\ UNCHANGED stopped
       ELSE /\ stopped' = TRUE
            /\ UNCHANGED <<should_exit, caller>>
    /\ UNCHANGED <<mode, is_running, thread, started, position, how, current_block,
                   chain_blocks, registered, subtensor_closed>>
    /\ UNCHANGED <<apiVars, signVars, chalVars, accessVars>>

\* join returns because the thread has ended; stop_run_thread finishes
StopJoined ==
    /\ caller = "joining"
    /\ position[thread] = "returned"
    /\ is_running' = FALSE
    /\ caller' = "idle"
    /\ stopped' = TRUE
    /\ UNCHANGED <<mode, should_exit, thread, started, position, how, current_block,
                   chain_blocks, registered, subtensor_closed, calls, lastCall>>
    /\ UNCHANGED <<apiVars, signVars, chalVars, accessVars>>

\* join returns after its five seconds while the thread is still held in
\* a network call or a sleep; stop_run_thread finishes all the same
StopTimedOut ==
    /\ caller = "joining"
    /\ position[thread] \in Blocking
    /\ is_running' = FALSE
    /\ caller' = "idle"
    /\ stopped' = TRUE
    /\ UNCHANGED <<mode, should_exit, thread, started, position, how, current_block,
                   chain_blocks, registered, subtensor_closed, calls, lastCall>>
    /\ UNCHANGED <<apiVars, signVars, chalVars, accessVars>>

Enter == run_in_background_thread("__enter__")

Exit == stop_run_thread("__exit__")

NextRun ==
    \/ run_in_background_thread("run_in_background_thread")
    \/ stop_run_thread("stop_run_thread")
    \/ Enter
    \/ Exit
    \/ StopJoined
    \/ StopTimedOut
    \/ \E r \in Runs : RunStep(r)
    \/ \E r \in Runs : RunRaise(r)
    \/ \E r \in Runs : RunInterrupt(r)
    \/ NewBlock

----------------------------------------------------------------------------
(* Specifications *)

\* the API node serving concurrent requests
Init == InitApi /\ SignIdle /\ InitChal /\ AccessIdle /\ RunIdle

Next == \E t \in Tasks : TaskStep(t)

Spec == Init /\ [][Next]_vars

\* one request at a time: only the first task ever runs
NextSeq == TaskStep(1)

SpecSeq == Init /\ [][NextSeq]_vars

\* a message is built, signed, modified and verified
InitSigning == InitApi /\ InitSign /\ InitChal /\ AccessIdle /\ RunIdle

SpecSign == InitSigning /\ [][NextSign]_vars

\* the verifier challenging the providers; the clock and the expiry of a
\* timeout are never postponed forever
SpecChal ==
    /\ Init
    /\ [][NextChal]_vars
    /\ WF_vars(Tick)
    /\ \A p \in Pairs : WF_vars(Timeout(p))

\* requests from callers of any stake reach the two blacklist checks
InitAccessControl == InitApi /\ SignIdle /\ InitChal /\ InitAccess /\ RunIdle

SpecAccess == InitAccessControl /\ [][NextAccess]_vars

\* the polling loop and its thread; a run() invocation that can take a step
\* takes it eventually (the block query and the sleep return), and the chain
\* keeps producing blocks
InitLifecycle == InitApi /\ SignIdle /\ InitChal /\ AccessIdle /\ InitRun

SpecRun ==
    /\ InitLifecycle
    /\ [][NextRun]_vars
    /\ \A r \in Runs : WF_vars(RunStep(r))
    /\ WF_vars(NewBlock)

----------------------------------------------------------------------------
(* Properties of the user-facing handlers *)

IsStore(t) == syn[t].kind = "StoreUser"

IsRetrieve(t) == syn[t].kind = "RetrieveUser"

\* the descriptor persisted for h unwraps the ciphertext placed for h
Consistent(h) ==
    decrypt_data_with_private_key(placement[h].ct,
                                  database[StoreKey(h)]).ok

\* C1: a retrieve for h that got the stored ciphertext from a provider
\* returns base64 of the bytes and the user payload of the latest successful
\* store for h, whatever store calls came in between.
C1_RoundTrip ==
    \A t \in Tasks :
        ( /\ IsRetrieve(t)
          /\ pc[t] \in {"ok", "DecryptionError"}
          /\ lastOk[syn[t].data_hash].p # PyNone )
        => /\ pc[t] = "ok"
           /\ syn[t].encrypted_data = B64Encode(lastOk[syn[t].data_hash].d)
           /\ syn[t].encryption_payload = lastOk[syn[t].data_hash].p

\* C2: the descriptor a retrieve for h unwraps with is the one persisted
\* under the network-custodial key of h, and every persisted descriptor was
\* written by a store call whose content id is the one in its key.
C2_BindingPerContentId ==
    /\ \A t \in Tasks :
          ( /\ IsRetrieve(t)
            /\ pc[t] \in {"ok", "DecryptionError"}
            /\ loc[t].validator_encryption_payload # PyNone )
          => /\ loc[t].content_id = syn[t].data_hash
             /\ loc[t].validator_encryption_payload[2].owner = "validator"
    /\ \A c \in Cids :
          database[<<"payload", "validator", c>>] # Absent
          => writer[<<"payload", "validator", c>>] = c

\* a retrieve for one item was served while another item's descriptor was
\* persisted too
C2_Witness ==
    \E t \in Tasks :
        /\ IsRetrieve(t) /\ pc[t] = "ok"
        /\ \E c \in Cids : /\ c # syn[t].data_hash
                            /\ database[<<"payload", "validator", c>>] # Absent

\* C3: a StoreUser response carries a data_hash only when the fan-out store
\* of that call for that ContentId reached its quorum.
C3_HashOnlyAfterQuorum ==
    \A t \in Tasks :
        (IsStore(t) /\ syn[t].data_hash # NoHash)
        => /\ pc[t] = "ok"
           /\ loc[t].quorum_met
           /\ loc[t].content_id = syn[t].data_hash

\* a store failed its quorum and its response carries no data_hash
C3_Witness ==
    \E t \in Tasks :
        /\ IsStore(t) /\ pc[t] = "QuorumNotMet"
        /\ ~ loc[t].quorum_met
        /\ syn[t].data_hash = NoHash

\* C4: once two store calls for the same ContentId have both finished
\* successfully, the persisted descriptor unwraps the ciphertext the
\* providers hold for that ContentId.
C4_SerialisedPerContentId ==
    \A a, b \in Tasks :
        ( /\ a # b
          /\ IsStore(a) /\ pc[a] = "ok"
          /\ IsStore(b) /\ pc[b] = "ok"
          /\ syn[a].data_hash = syn[b].data_hash )
        => Consistent(syn[a].data_hash)

\* C5: the data_hash of a StoreUser response is the ContentId of the
\* base64-decoded request bytes, so responses to requests with identical
\* encrypted_data carry identical data_hash values.
C5_HashOfUserBytes ==
    /\ \A t \in Tasks :
          (IsStore(t) /\ pc[t] = "ok")
          => syn[t].data_hash = CID(B64Decode(syn[t].encrypted_data))
    /\ \A a, b \in Tasks :
          ( /\ IsStore(a) /\ pc[a] = "ok"
            /\ IsStore(b) /\ pc[b] = "ok"
            /\ syn[a].encrypted_data = syn[b].encrypted_data )
          => syn[a].data_hash = syn[b].data_hash

\* two successful stores of identical encrypted_data with different user
\* payloads
C5_Witness ==
    \E a, b \in Tasks :
        /\ a # b
        /\ IsStore(a) /\ pc[a] = "ok"
        /\ IsStore(b) /\ pc[b] = "ok"
        /\ syn[a].encrypted_data = syn[b].encrypted_data
        /\ syn[a].encryption_payload # syn[b].encryption_payload

\* C6: the response fields of a retrieve are unset unless the handler
\* succeeded, and then they come from the successfully unwrapped ciphertext.
C6_NoPartialReturn ==
    \A t \in Tasks :
        IsRetrieve(t) =>
            IF pc[t] = "ok"
            THEN LET dec == decrypt_data_with_private_key(
                                loc[t].validator_encrypted_data,
                                JsonDumps(loc[t].validator_encryption_payload))
                 IN  dec.ok /\ syn[t].encrypted_data = B64Encode(dec.pt)
            ELSE /\ syn[t].encrypted_data = <<>>
                 /\ syn[t].encryption_payload = PyNone

\* a retrieve fetched a ciphertext and failed to unwrap it
C6_Witness ==
    \E t \in Tasks :
        /\ IsRetrieve(t) /\ pc[t] = "DecryptionError"
        /\ loc[t].validator_encrypted_data # NoCt

\* C11: with the default redundancy of 3 and the majority policy, a store
\* whose fan-out got 2 or 3 acknowledgements succeeds, with the placement
\* recording how many providers hold a copy (the others having failed), and
\* a store that got 0 or 1 fails with QuorumNotMet.
C11_MajorityOfThree ==
    /\ \A t \in Tasks :
          (IsStore(t) /\ pc[t] \in {"ok", "QuorumNotMet"}) =>
              /\ loc[t].acks \in 0 .. 3
              /\ (pc[t] = "ok") <=> (loc[t].acks >= 2)
              /\ (pc[t] = "QuorumNotMet") <=> (loc[t].acks <= 1)
              /\ pc[t] = "ok" => syn[t].data_hash = loc[t].content_id
    /\ \A c \in Cids : placement[c].copies \in {0, 2, 3}

\* one store succeeded although one of its 3 providers failed, and another
\* store failed with a single acknowledgement
C11_Witness ==
    \E a, b \in Tasks :
        /\ IsStore(a) /\ pc[a] = "ok" /\ loc[a].acks = 2
        /\ placement[loc[a].content_id].copies = 2
        /\ IsStore(b) /\ pc[b] = "QuorumNotMet" /\ loc[b].acks = 1

\* C7: after a store that failed at the fan-out step the persisted
\* descriptor of its ContentId is what it was before the call.
C7_NoPartialState ==
    \A t \in Tasks :
        (IsStore(t) /\ pc[t] = "QuorumNotMet")
        => database[StoreKey(loc[t].content_id)] = pre[t]

----------------------------------------------------------------------------
(* Properties of the signed content *)

\* the fields of the message whose value differs from the signed one
Changed == { f \in DOMAIN msg : msg[f] # sent[f] }

\* C8 as stated: whatever field is added or changed after signing, the
\* signature no longer verifies.
C8_AnyChangeInvalidates ==
    (stage = "verified" /\ Changed # {}) => ~ valid

\* C8: the signed content is the required-hash fields in list order; the
\* signature verifies exactly when none of them changed after signing, so a
\* field outside the list (StoreUser.data_hash, RetrieveUser.encrypted_data,
\* RetrieveUser.encryption_payload) may be filled in without invalidating
\* it, and a change of a listed field always invalidates it.
C8_ListedFieldsBindSignature ==
    stage = "verified" =>
        /\ valid <=> (Changed \cap Range(required_hash_fields(variant)) = {})
        /\ variant = "StoreUser" =>
              (valid <=> Changed \subseteq {"data_hash"})
        /\ variant = "RetrieveUser" =>
              (valid <=> Changed \subseteq {"encrypted_data", "encryption_payload"})

\* a StoreUser response whose data_hash was filled in after signing verified
C8_Witness ==
    /\ variant = "StoreUser"
    /\ stage = "verified"
    /\ msg["data_hash"] # sent["data_hash"]
    /\ valid

\* C12: every name in the required_hash_fields list of the message's variant
\* is a field declared on that variant, so every entry of the list
\* contributes a field value to the content that is signed.
C12_RequiredFieldsDeclared ==
    stage \in {"signed", "verified"} =>
        /\ Range(required_hash_fields(variant)) \subseteq Range(Fields(variant))
        /\ \A i \in 1 .. Len(required_hash_fields(variant)) :
              BodyHash(variant, sent)[i][2] # "missing"

----------------------------------------------------------------------------
(* Properties of the challenge rounds *)

\* C9: every round that entered Challenged resolves to Verified or Failed.
C9_RoundsResolve ==
    \A p \in Pairs :
        (chal[p] = "Challenged") ~> (chal[p] \in {"Verified", "Failed"})

\* a round failed because its timeout expired without a response
C9_Witness ==
    \E p \in Pairs : chal[p] = "Failed" /\ elapsed[p] >= challenge_timeout

\* C10: at most one challenge per pair is unresolved at any time, and a
\* pair has an unresolved challenge exactly while it is Challenged.
C10_SequentialRounds ==
    \A p \in Pairs :
        /\ Cardinality(open[p]) <= 1
        /\ (open[p] # {}) <=> (chal[p] = "Challenged")
        /\ open[p] \subseteq {round[p]}

\* a pair is in its second round while a pair of another ContentId and a
\* pair of another provider are challenged at the same time
C10_Witness ==
    \E p, q, r \in Pairs :
        /\ p[1] # q[1] /\ p[2] # r[2]
        /\ chal[p] = "Challenged" /\ round[p] = 2
        /\ chal[q] = "Challenged"
        /\ chal[r] = "Challenged"

----------------------------------------------------------------------------
(* Properties of the access control *)

\* C15: store_blacklist and retrieve_blacklist decide alike: a request is
\* rejected exactly when open_access is off and the caller's hotkey is not
\* in whitelisted_hotkeys; the caller's stake has no influence.
C15_SameDecisionNoStake ==
    /\ \A e \in {"store", "retrieve"} :
          verdict[e] # NoVerdict =>
              (verdict[e].rejected <=>
                  (~open_access /\ verdict[e].hotkey \notin whitelisted_hotkeys))
    /\ (/\ verdict["store"] # NoVerdict
        /\ verdict["retrieve"] # NoVerdict
        /\ verdict["store"].hotkey = verdict["retrieve"].hotkey)
            => verdict["store"].rejected = verdict["retrieve"].rejected

C15_Witness ==
    /\ verdict["store"] # NoVerdict
    /\ verdict["retrieve"] # NoVerdict
    /\ verdict["store"].hotkey = verdict["retrieve"].hotkey
    /\ verdict["store"].stake = 0
    /\ verdict["retrieve"].stake > 0
    /\ verdict["retrieve"].rejected
    /\ whitelisted_hotkeys # {}

----------------------------------------------------------------------------
(* Properties of the polling loop and its thread *)

\* C13: a run() invocation whose loop raised an unforeseen exception logs it
\* and carries on: it is still in the loop, waiting for blocks and refreshing
\* the metagraph, and has not left for the finally clause.
C13_ContinuesAfterException ==
    \A r \in Runs :
        how[r] = "Exception" => position[r] \in {"loop", "query", "wait", "refresh"}

\* C14: once should_exit is set, every run() invocation under way eventually
\* returns, and whenever run() has left by normal exit, KeyboardInterrupt or
\* another exception, the subtensor connection is closed.
C14_ExitsAndCloses ==
    /\ \A r \in Runs : (should_exit /\ r \in Alive) ~> (position[r] = "returned")
    /\ [](\A r \in Runs :
            (position[r] = "returned"
                /\ how[r] \in {"normal", "KeyboardInterrupt", "Exception"})
                    => subtensor_closed)

StartCalled ==
    calls' = calls + 1 /\ lastCall' \in {"run_in_background_thread", "__enter__"}

StopCalled ==
    calls' = calls + 1 /\ lastCall' \in {"stop_run_thread", "__exit__"}

ObjectState ==
    <<should_exit, is_running, thread, started, position, how, current_block,
      chain_blocks, registered, subtensor_closed>>

\* C16: starting while is_running starts no thread and changes no state,
\* stopping while not is_running changes no state, and once stop_run_thread
\* has returned no run() invocation refreshes the metagraph any more.
C16_Idempotent ==
    [][ /\ (is_running /\ StartCalled) => UNCHANGED ObjectState
        /\ (~is_running /\ StopCalled) => UNCHANGED ObjectState
        /\ stopped =>
              \A r \in Runs : ~(position[r] = "refresh" /\ position'[r] = "loop")
      ]_vars

\* C17: between the calls of the lifecycle methods at most one background
\* thread executing run() is alive, and is_running is true exactly when one
\* is alive.
C17_OneThreadTracked ==
    (mode = "background" /\ caller = "idle") =>
        /\ Cardinality(Alive) <= 1
        /\ is_running <=> (Alive # {})

====
